---------------------------- MODULE Spec2Model ----------------------------
(***************************************************************************)
(* Model of the ThreatConnect reporting module for Cuckoo                  *)
(* (threatconnect-report.py): ThreatConnectReport.run and the steps it     *)
(* calls, against a remote platform whose commits may fail.                *)
(*                                                                         *)
(* Python strings are sequences of one-character strings, so that slicing, *)
(* regular-expression substitution, substring search and IP parsing are    *)
(* computed rather than assumed.  None is the empty sequence where a       *)
(* value is only tested for truth.                                         *)
(***************************************************************************)
EXTENDS Integers, Sequences, FiniteSets, TLC

(***************************************************************************)
(* Bounds of the model.                                                    *)
(***************************************************************************)
\* largest number of entries in network.tcp and in network.udp
MaxConns == 2
\* incident ids the remote platform may assign are 1..MaxIncidentId
MaxIncidentId == 2

(***************************************************************************)
(* String helpers.                                                         *)
(***************************************************************************)
Digits == <<"0", "1", "2", "3", "4", "5", "6", "7", "8", "9">>

IsDigit(c) == \E i \in 1..10 : Digits[i] = c

IsHexDigit(c) == IsDigit(c) \/ c \in {"a", "b", "c", "d", "e", "f"}

DigitValue(c) == (CHOOSE i \in 1..10 : Digits[i] = c) - 1

\* str(n) for a non-negative integer
RECURSIVE IntToStr(_)
IntToStr(n) ==
    IF n < 10 THEN <<Digits[n + 1]>>
    ELSE IntToStr(n \div 10) \o <<Digits[(n % 10) + 1]>>

\* int(s) for a string of decimal digits
RECURSIVE StrToInt(_)
StrToInt(s) ==
    IF s = <<>> THEN 0
    ELSE 10 * StrToInt(SubSeq(s, 1, Len(s) - 1)) + DigitValue(s[Len(s)])

\* s[:n]
Prefix(s, n) == SubSeq(s, 1, IF Len(s) < n THEN Len(s) ELSE n)

\* pattern occurs in s at position i
MatchesAt(s, pattern, i) ==
    /\ i + Len(pattern) - 1 <= Len(s)
    /\ \A k \in 1..Len(pattern) : s[i + k - 1] = pattern[k]

\* pattern in s
Contains(s, pattern) == \E i \in 1..(Len(s) + 1) : MatchesAt(s, pattern, i)

\* s.split(sep) for a one-character separator
RECURSIVE Split(_, _)
Split(s, sep) ==
    IF \A i \in 1..Len(s) : s[i] # sep THEN <<s>>
    ELSE LET i == CHOOSE j \in 1..Len(s) :
                      s[j] = sep /\ \A k \in 1..(j - 1) : s[k] # sep
         IN  <<SubSeq(s, 1, i - 1)>> \o Split(SubSeq(s, i + 1, Len(s)), sep)

\* number of leading digits of s from position i on
RECURSIVE DigitRun(_, _)
DigitRun(s, i) ==
    IF i <= Len(s) /\ IsDigit(s[i]) THEN 1 + DigitRun(s, i + 1) ELSE 0

\* re.sub(':\d+', '', s): every leftmost, greedy, non-overlapping match of a
\* colon followed by one or more digits is removed, wherever it stands
RECURSIVE StripPortFrom(_, _)
StripPortFrom(s, i) ==
    IF i > Len(s) THEN <<>>
    ELSE IF s[i] = ":" /\ DigitRun(s, i + 1) > 0
         THEN StripPortFrom(s, i + 1 + DigitRun(s, i + 1))
         ELSE <<s[i]>> \o StripPortFrom(s, i + 1)

re_sub_port(s) == StripPortFrom(s, 1)

\* template.format(arg) for a template with one replacement field "{}"
Format(template, arg) ==
    IF Contains(template, <<"{", "}">>)
    THEN LET i == CHOOSE j \in 1..Len(template) :
                      /\ MatchesAt(template, <<"{", "}">>, j)
                      /\ \A k \in 1..(j - 1) : ~MatchesAt(template, <<"{", "}">>, k)
         IN  SubSeq(template, 1, i - 1) \o arg \o SubSeq(template, i + 2, Len(template))
    ELSE template

(***************************************************************************)
(* ip(indicator): ipaddress.ip_address accepts an IPv4 or an IPv6 literal. *)
(***************************************************************************)
ParseOctetOk(o) ==
    /\ o # <<>>
    /\ \A i \in 1..Len(o) : IsDigit(o[i])
    /\ Len(o) <= 3
    /\ ~(Len(o) > 1 /\ o[1] = "0")
    /\ StrToInt(o) <= 255

IsIPv4(s) ==
    /\ s # <<>>
    /\ LET octets == Split(s, ".")
       IN  Len(octets) = 4 /\ \A i \in 1..4 : ParseOctetOk(octets[i])

ParseHextetOk(h) ==
    /\ h # <<>>
    /\ \A i \in 1..Len(h) : IsHexDigit(h[i])
    /\ Len(h) <= 4

IsIPv6(s) ==
    /\ s # <<>>
    /\ LET raw == Split(s, ":")
           last == raw[Len(raw)]
           hasV4 == \E i \in 1..Len(last) : last[i] = "."
           \* an embedded IPv4 address stands for two hextets
           parts == IF hasV4
                    THEN SubSeq(raw, 1, Len(raw) - 1) \o << <<"0">>, <<"0">> >>
                    ELSE raw
           n == Len(parts)
           skips == {i \in 2..(n - 1) : parts[i] = <<>>}
       IN  /\ Len(raw) >= 3
           /\ hasV4 => IsIPv4(last)
           /\ n <= 9
           /\ Cardinality(skips) <= 1
           /\ IF skips # {}
              THEN LET k == CHOOSE i \in skips : TRUE
                       hi == IF parts[1] = <<>> THEN k - 2 ELSE k - 1
                       lo == IF parts[n] = <<>> THEN n - k - 1 ELSE n - k
                   IN  /\ parts[1] = <<>> => hi = 0
                       /\ parts[n] = <<>> => lo = 0
                       /\ 8 - (hi + lo) >= 1
                       /\ \A i \in 1..hi : ParseHextetOk(parts[i])
                       /\ \A i \in (n - lo + 1)..n : ParseHextetOk(parts[i])
              ELSE /\ n = 8
                   /\ \A i \in 1..n : ParseHextetOk(parts[i])

ip(indicator) == IsIPv4(indicator) \/ IsIPv6(indicator)


(***************************************************************************)
(* Configuration (self.options) and the clock.                             *)
(***************************************************************************)
\* self.options.target_source
target_source == <<"o", "r", "g">>

\* self.options.report_link_template
report_link_template == <<"r", "/", "{", "}">>

\* what datetime.date.today().strftime('%Y%m%d') and
\* datetime.datetime.now().isoformat() may return
Clock == {[date |-> <<"2", "0", "2", "3", "0", "1", "0", "2">>, iso |-> <<"2", "0", "2", "3", "-", "0", "1", "-", "0", "2", "T", "0", "3", ":", "0", "4", ":", "0", "5">>]}

(***************************************************************************)
(* Analysis results (the input of run).                                    *)
(*                                                                         *)
(* A section of network is absent, a list of entries, or a mapping.  For   *)
(* a mapping, items holds its keys: iterating a Python dict yields its     *)
(* keys and nothing else of it is reachable from the loop.                 *)
(***************************************************************************)
NoFile == [name |-> <<>>, md5 |-> <<>>, sha1 |-> <<>>, sha256 |-> <<>>, size |-> 0]

FileData == [name |-> <<"a", ".", "e", "x", "e">>, md5 |-> <<"m">>, sha1 |-> <<"s", "1">>,
             sha256 |-> <<"s", "2">>, size |-> 100]

FileTarget == [present |-> TRUE, category |-> "file", hasfile |-> TRUE, file |-> FileData]

Targets ==
    { FileTarget,
      \* a file target whose file has no name
      [present |-> TRUE, category |-> "file", hasfile |-> TRUE,
       file |-> [FileData EXCEPT !.name = <<>>]],
      \* a target of another category that still carries file data
      [present |-> TRUE, category |-> "url", hasfile |-> TRUE, file |-> FileData],
      \* a target without file data
      [present |-> TRUE, category |-> "url", hasfile |-> FALSE, file |-> NoFile],
      \* no target key
      [present |-> FALSE, category |-> "", hasfile |-> FALSE, file |-> NoFile] }

Started == <<"2", "0", "2", "3", "-", "0", "1", "-", "0", "1", "T", "0", "0", ":", "0", "0", ":", "0", "0">>

StartedInfo == [present |-> TRUE, id |-> 42, started |-> Started]

Infos ==
    { StartedInfo,
      [present |-> TRUE, id |-> 42, started |-> <<>>],
      [present |-> TRUE, id |-> 0, started |-> Started],
      [present |-> FALSE, id |-> 0, started |-> <<>>] }

Absent == [kind |-> "absent", items |-> <<>>]

ListOf(items) == [kind |-> "list", items |-> items]

MappingWithKeys(keys) == [kind |-> "dict", items |-> keys]

NoNetwork ==
    [present |-> FALSE, tcp |-> Absent, udp |-> Absent, http |-> Absent,
     hosts |-> Absent, dns |-> Absent, domains |-> Absent]

OnlyNetwork == [NoNetwork EXCEPT !.present = TRUE]

Addr1234 == <<"1", ".", "2", ".", "3", ".", "4">>

ExampleCom == <<"e", "x", "a", "m", "p", "l", "e", ".", "c", "o", "m">>

\* connection i of protocol p: distinct source and destination addresses
Conn(p, i) == [src |-> <<p, "s", Digits[i + 1]>>, dst |-> <<p, "d", Digits[i + 1]>>]

Conns(p, n) == [i \in 1..n |-> Conn(p, i)]

HttpEntries ==
    << [host |-> <<"1", ".", "2", ".", "3", ".", "4", ":", "8", "0">>, uri |-> <<"/", "x">>],
       [host |-> <<"a", ".", "b", ":", "8", "0">>, uri |-> <<"/", "y">>],
       [host |-> <<"a", ".", "b">>, uri |-> <<>>],
       [host |-> <<"5", ".", "6", ".", "7", ".", "8">>, uri |-> <<>>] >>

HostEntries == << Addr1234, <<"a", ".", "b">> >>

DnsEntries == << [request |-> ExampleCom, answers |-> <<Addr1234>>] >>

DomainEntries ==
    << [ip |-> Addr1234, domain |-> <<"a", ".", "b">>],
       [ip |-> <<>>, domain |-> <<"c", ".", "d">>],
       [ip |-> <<"5", ".", "6", ".", "7", ".", "8">>, domain |-> <<>>] >>

\* network: {dns: [{request: "example.com", answers: ["1.2.3.4"]}]}
DnsListNetwork == [OnlyNetwork EXCEPT !.dns = ListOf(DnsEntries)]

\* network: {dns: {request: "example.com", answers: ["1.2.3.4"]}}
DnsMappingNetwork ==
    [OnlyNetwork EXCEPT !.dns = MappingWithKeys(<< <<"r", "e", "q", "u", "e", "s", "t">>, <<"a", "n", "s", "w", "e", "r", "s">> >>)]

Networks ==
    { NoNetwork, DnsListNetwork, DnsMappingNetwork }
    \cup { [OnlyNetwork EXCEPT !.tcp = ListOf(Conns("t", n)), !.udp = ListOf(Conns("u", m))] :
             n \in 0..MaxConns, m \in 0..MaxConns }
    \cup { [OnlyNetwork EXCEPT !.http = ListOf(<<HttpEntries[i]>>)] : i \in 1..Len(HttpEntries) }
    \cup { [OnlyNetwork EXCEPT !.http = ListOf(HttpEntries)],
           [OnlyNetwork EXCEPT !.hosts = ListOf(HostEntries)],
           [OnlyNetwork EXCEPT !.domains = ListOf(DomainEntries)],
           [present |-> TRUE, tcp |-> ListOf(Conns("t", 1)), udp |-> ListOf(<<>>),
            http |-> ListOf(<<HttpEntries[2]>>), hosts |-> ListOf(HostEntries),
            dns |-> ListOf(DnsEntries), domains |-> ListOf(<<DomainEntries[1]>>)] }

Results == [target : Targets, info : Infos, network : Networks]

\* the end-to-end scenario as written, and with dns as a list of queries
EndToEndLiteral == [target |-> FileTarget, info |-> StartedInfo, network |-> DnsMappingNetwork]

EndToEndList == [target |-> FileTarget, info |-> StartedInfo, network |-> DnsListNetwork]

(***************************************************************************)
(* The remote platform: what a commit may do.                              *)
(***************************************************************************)
NoError == [type |-> "none", msg |-> <<>>]

RuntimeError(msg) == [type |-> "RuntimeError", msg |-> msg]

ExclusionFailure == RuntimeError(<<"o", "n", " ", "e", "x", "c", "l", "u", "s", "i", "o", "n", " ", "l", "i", "s", "t">>)

OtherFailure == RuntimeError(<<"t", "i", "m", "e", "o", "u", "t">>)

\* commit() returns, or raises a RuntimeError whose message is the only signal
CommitOutcomes == {NoError, ExclusionFailure, OtherFailure}

\* attributes the platform may hold for the incident besides the two added here
ExtraAttributes == { <<>>, <<[type |-> "Description", value |-> <<"d">>, labels |-> {}]>> }

(***************************************************************************)
(* State.                                                                  *)
(***************************************************************************)
VARIABLES
    results,           \* self.results, the argument of run
    pc,                \* the statement of run (or of create_incident) to execute next
    exc,               \* the exception that left run, "none" while there is none
    raised_in,         \* the step that exception came from
    incident,          \* the incident object of create_incident
    incident_commits,  \* the incident commits the platform has received, in order
    incident_id,       \* self.incident_id, 0 until run assigns it
    uploads,           \* the calls of upload_indicator so far, in order
    file_commits,      \* the commits of the file indicator by import_file
    steps              \* the extractor steps run has started, in order

vars == <<results, pc, exc, raised_in, incident, incident_commits, incident_id,
          uploads, file_commits, steps>>

NoIncident ==
    [title |-> <<>>, owner |-> <<>>, event_date |-> <<>>, attributes |-> <<>>,
     id |-> 0, loaded |-> FALSE]

IncidentSteps == {"create_incident", "commit1", "label", "commit2"}

NetworkSteps ==
    <<"import_network_udp", "import_network_tcp", "import_network_http",
      "import_network_hosts", "import_network_dns", "import_network_domains">>

ExtractorSteps == NetworkSteps \o <<"import_file">>

(***************************************************************************)
(* upload_indicator and the handling of a failed commit.                   *)
(***************************************************************************)
ExclusionPattern == <<"e", "x", "c", "l", "u", "s", "i", "o", "n", " ", "l", "i", "s", "t">>

\* re.search(pattern, subject): a subject that is not a string (here the
\* exception object itself, not its message) makes re.search raise TypeError
re_search(pattern, subject) ==
    IF subject.type # "str"
    THEN [exc |-> "TypeError", found |-> FALSE]
    ELSE [exc |-> "none", found |-> Contains(subject.msg, pattern)]

\* the except clause around indicator.commit(): the exception that leaves it
CommitFailure(e) ==
    LET m == re_search(ExclusionPattern, e)
    IN  IF m.exc # "none" THEN m.exc
        ELSE IF ~m.found THEN "CuckooReportError"
        ELSE "none"

\* variant: associate_group is forgotten
NewIndicatorUnassociated(raw_indicator, iid) ==
    [value |-> raw_indicator, owner |-> target_source, group |-> 0]

\* the indicator upload_indicator builds before it commits
NewIndicator(raw_indicator, iid) ==
    [value |-> raw_indicator, owner |-> target_source, group |-> iid]

\* one call of upload_indicator whose commit has outcome e
upload_indicator(raw_indicator, iid, e) ==
    [indicator |-> NewIndicator(raw_indicator, iid),
     error |-> e,
     exc |-> IF e = NoError THEN "none" ELSE CommitFailure(e)]

\* except (CuckooReportError, RuntimeError): pass
Catches(x) == x \in {"CuckooReportError", "RuntimeError"}

(***************************************************************************)
(* The extractors: what each one does, in order, as a sequence of          *)
(* operations (an upload of a candidate, or a statement that raises).      *)
(***************************************************************************)
Up(raw) == [raise |-> "none", raw |-> raw]

Raise(x) == [raise |-> x, raw |-> <<>>]

\* variant: the lookups have no dict() default, an absent section is None
NetworkSectionDefaultNone(res, type) ==
    IF res.network.present /\ res.network[type].kind # "absent"
    THEN res.network[type]
    ELSE [kind |-> "none", items |-> <<>>]

\* self.results.get('network', dict()).get(type, dict())
NetworkSection(res, type) ==
    IF res.network.present /\ res.network[type].kind # "absent"
    THEN res.network[type]
    ELSE MappingWithKeys(<<>>)

\* concatenation of a sequence of sequences
RECURSIVE Flatten(_)
Flatten(ss) == IF ss = <<>> THEN <<>> ELSE Head(ss) \o Flatten(Tail(ss))

\* for x in section: what the loop does, given what its body does for each
\* element (the entries of a list, the keys of a mapping); None is not iterable
ForEach(section, bodies) ==
    IF section.kind = "none" THEN <<Raise("TypeError")>> ELSE Flatten(bodies)

\* x.get(...) where x is a str
StrHasNoGet(k) == <<Raise("AttributeError")>>

ConnBody(conn) == <<Up(conn.src), Up(conn.dst)>>

import_network(res, type) ==
    LET section == NetworkSection(res, type)
    IN  ForEach(section,
                [i \in DOMAIN section.items |->
                    IF section.kind = "dict" THEN StrHasNoGet(section.items[i])
                    ELSE ConnBody(section.items[i])])

\* variant: the host is uploaded whether or not it is an IP address
HttpBodyHostEitherWay(conn) ==
    LET host == re_sub_port(conn.host)
    IN  <<Up(host)>> \o (IF conn.uri # <<>> THEN <<Up(conn.uri)>> ELSE <<>>)

HttpBody(conn) ==
    LET host == re_sub_port(conn.host)
    IN  (IF ip(host) THEN <<Up(host)>> ELSE <<>>)
        \o (IF conn.uri # <<>> THEN <<Up(conn.uri)>> ELSE <<>>)

import_network_http(res) ==
    LET section == NetworkSection(res, "http")
    IN  ForEach(section,
                [i \in DOMAIN section.items |->
                    IF section.kind = "dict" THEN StrHasNoGet(section.items[i])
                    ELSE HttpBody(section.items[i])])

HostBody(host) == IF ip(host) THEN <<Up(host)>> ELSE <<Up(host)>>

import_network_hosts(res) ==
    LET section == NetworkSection(res, "hosts")
    IN  ForEach(section,
                [i \in DOMAIN section.items |->
                    IF section.kind = "dict" THEN HostBody(section.items[i])
                    ELSE HostBody(section.items[i])])

DnsBody(conn) == <<Up(conn.request)>> \o [i \in 1..Len(conn.answers) |-> Up(conn.answers[i])]

import_network_dns(res) ==
    LET section == NetworkSection(res, "dns")
    IN  ForEach(section,
                [i \in DOMAIN section.items |->
                    IF section.kind = "dict" THEN StrHasNoGet(section.items[i])
                    ELSE DnsBody(section.items[i])])

DomainBody(domain) ==
    (IF domain.ip # <<>> THEN <<Up(domain.ip)>> ELSE <<>>)
    \o (IF domain.domain # <<>> THEN <<Up(domain.domain)>> ELSE <<>>)

import_network_domains(res) ==
    LET section == NetworkSection(res, "domains")
    IN  ForEach(section,
                [i \in DOMAIN section.items |->
                    IF section.kind = "dict" THEN StrHasNoGet(section.items[i])
                    ELSE DomainBody(section.items[i])])

\* Execute the operations from the i-th on; outs[i] is the outcome of the
\* commit of the i-th.  An exception the extractor does not catch ends it.
RECURSIVE RunOps(_, _, _, _, _)
RunOps(ops, outs, i, by, iid) ==
    IF i > Len(ops) THEN [calls |-> <<>>, exc |-> "none"]
    ELSE IF ops[i].raise # "none" THEN [calls |-> <<>>, exc |-> ops[i].raise]
    ELSE LET c == upload_indicator(ops[i].raw, iid, outs[i])
             call == [by |-> by, indicator |-> c.indicator, error |-> c.error, exc |-> c.exc]
         IN  IF c.exc = "none" \/ Catches(c.exc)
             THEN LET rest == RunOps(ops, outs, i + 1, by, iid)
                  IN  [calls |-> <<call>> \o rest.calls, exc |-> rest.exc]
             ELSE [calls |-> <<call>>, exc |-> c.exc]

(***************************************************************************)
(* create_incident.                                                        *)
(***************************************************************************)
\* lines 47-72: what building the incident raises, "none" if nothing
BuildRaises(res) ==
    IF ~res.target.present \/ ~res.target.hasfile THEN "AttributeError"
    ELSE IF res.target.file.name = <<>> THEN "UnboundLocalError"
    ELSE IF ~res.info.present THEN "AttributeError"
    ELSE IF res.info.id = 0 THEN "UnboundLocalError"
    ELSE "none"

Title(date_today, filename) ==
    <<"C", "u", "c", "k", "o", "o", " ", "A", "n", "a", "l", "y", "s", "i", "s", " ">> \o date_today \o <<":", " ">> \o filename

BuildIncident(res, clock) ==
    [title |-> Title(clock.date, res.target.file.name),
     owner |-> target_source,
     event_date |-> clock.iso,
     attributes |->
        << [type |-> "Analysis ID", value |-> res.info.id, labels |-> {}],
           [type |-> "Source",
            value |-> Format(report_link_template, IntToStr(res.info.id)),
            labels |-> {}] >>,
     id |-> 0,
     loaded |-> FALSE]

Sensitive(attribute) == attribute.type = "Analysis ID" \/ attribute.type = "Source"

\* variant: only the Analysis ID attribute is labelled
LabelAttributesAnalysisIdOnly(attributes) ==
    [i \in 1..Len(attributes) |->
        IF attributes[i].type = "Analysis ID"
        THEN [attributes[i] EXCEPT !.labels = @ \cup {"DO NOT SHARE"}]
        ELSE attributes[i]]

\* the labelling loop: every Analysis ID and Source attribute gets the label
LabelAttributes(attributes) ==
    [i \in 1..Len(attributes) |->
        IF Sensitive(attributes[i])
        THEN [attributes[i] EXCEPT !.labels = @ \cup {"DO NOT SHARE"}]
        ELSE attributes[i]]

\* variant: the incident commit treats an exclusion failure as the indicator
\* commits are meant to, and swallows it
IncidentCommitRaisesExceptExclusion(e) ==
    IF e = NoError \/ Contains(e.msg, ExclusionPattern) THEN "none" ELSE "CuckooReportError"

\* a failed incident commit becomes a CuckooReportError, whatever its message
IncidentCommitRaises(e) == IF e = NoError THEN "none" ELSE "CuckooReportError"

(***************************************************************************)
(* import_file.                                                            *)
(***************************************************************************)
\* variant: the occurrence date is the whole start timestamp
FileIndicatorFullStarted(res, iid) ==
    LET file_data == res.target.file
    IN  [value |-> file_data.md5,
         owner |-> target_source,
         hashes |-> <<file_data.sha1, file_data.sha256>>,
         size |-> file_data.size,
         occurrences |->
            IF res.info.started # <<>>
            THEN <<[name |-> file_data.name, fo_date |-> res.info.started]>>
            ELSE <<>>,
         group |-> iid]

FileIndicator(res, iid) ==
    LET file_data == res.target.file
    IN  [value |-> file_data.md5,
         owner |-> target_source,
         hashes |-> <<file_data.sha1, file_data.sha256>>,
         size |-> file_data.size,
         occurrences |->
            IF res.info.started # <<>>
            THEN <<[name |-> file_data.name, fo_date |-> Prefix(res.info.started, 10)]>>
            ELSE <<>>,
         group |-> iid]

ImportsFile(res) == res.target.category = "file" /\ res.target.hasfile

(***************************************************************************)
(* run, step by step.                                                      *)
(***************************************************************************)
Init ==
    /\ results \in Results
    /\ pc = "create_incident"
    /\ exc = "none"
    /\ raised_in = "none"
    /\ incident = NoIncident
    /\ incident_commits = <<>>
    /\ incident_id = 0
    /\ uploads = <<>>
    /\ file_commits = <<>>
    /\ steps = <<>>

\* the exception x leaves run from the step at pc
RaiseFromRun(x) ==
    /\ pc' = "raised"
    /\ exc' = x
    /\ raised_in' = pc

\* create_incident up to its first commit: build the incident object
CreateIncident ==
    /\ pc = "create_incident"
    /\ IF BuildRaises(results) # "none"
       THEN /\ RaiseFromRun(BuildRaises(results))
            /\ UNCHANGED incident
       ELSE /\ \E clock \in Clock : incident' = BuildIncident(results, clock)
            /\ pc' = "commit1"
            /\ UNCHANGED <<exc, raised_in>>
    /\ UNCHANGED <<results, incident_commits, incident_id, uploads, file_commits, steps>>

\* the first incident.commit(): the platform assigns the incident its id
IncidentCommit1 ==
    /\ pc = "commit1"
    /\ \E e \in CommitOutcomes, id \in 1..MaxIncidentId :
          /\ incident_commits' = Append(incident_commits, [incident |-> incident, error |-> e])
          /\ IF IncidentCommitRaises(e) # "none"
             THEN /\ RaiseFromRun(IncidentCommitRaises(e))
                  /\ UNCHANGED incident
             ELSE /\ incident' = [incident EXCEPT !.id = id]
                  /\ pc' = "label"
                  /\ UNCHANGED <<exc, raised_in>>
    /\ UNCHANGED <<results, incident_id, uploads, file_commits, steps>>

\* incident.load_attributes() and the labelling loop
LoadAndLabel ==
    /\ pc = "label"
    /\ \E extra \in ExtraAttributes :
          incident' = [incident EXCEPT
                          !.attributes = LabelAttributes(incident.attributes \o extra),
                          !.loaded = TRUE]
    /\ pc' = "commit2"
    /\ UNCHANGED <<results, exc, raised_in, incident_commits, incident_id, uploads,
                   file_commits, steps>>

\* the second incident.commit(); on success create_incident returns
\* incident.id and run stores it in self.incident_id
IncidentCommit2 ==
    /\ pc = "commit2"
    /\ \E e \in CommitOutcomes :
          /\ incident_commits' = Append(incident_commits, [incident |-> incident, error |-> e])
          /\ IF IncidentCommitRaises(e) # "none"
             THEN /\ RaiseFromRun(IncidentCommitRaises(e))
                  /\ UNCHANGED incident_id
             ELSE /\ incident_id' = incident.id
                  /\ pc' = "import_network_udp"
                  /\ UNCHANGED <<exc, raised_in>>
    /\ UNCHANGED <<results, incident, uploads, file_commits, steps>>

\* one network extractor call of run: the step at pc executes ops, then run
\* goes on with next unless an exception left the extractor
Extract(step, next, ops) ==
    /\ pc = step
    /\ steps' = Append(steps, step)
    /\ \E outs \in [1..Len(ops) -> CommitOutcomes] :
          LET r == RunOps(ops, outs, 1, step, incident_id)
          IN  /\ uploads' = uploads \o r.calls
              /\ IF r.exc # "none"
                 THEN RaiseFromRun(r.exc)
                 ELSE /\ pc' = next
                      /\ UNCHANGED <<exc, raised_in>>
    /\ UNCHANGED <<results, incident, incident_commits, incident_id, file_commits>>

ImportNetworkUdp ==
    Extract("import_network_udp", "import_network_tcp", import_network(results, "udp"))

ImportNetworkTcp ==
    Extract("import_network_tcp", "import_network_http", import_network(results, "tcp"))

ImportNetworkHttp ==
    Extract("import_network_http", "import_network_hosts", import_network_http(results))

ImportNetworkHosts ==
    Extract("import_network_hosts", "import_network_dns", import_network_hosts(results))

ImportNetworkDns ==
    Extract("import_network_dns", "import_network_domains", import_network_dns(results))

ImportNetworkDomains ==
    Extract("import_network_domains", "import_file", import_network_domains(results))

\* import_file inside the try of run
ImportFile ==
    /\ pc = "import_file"
    /\ steps' = Append(steps, "import_file")
    /\ IF ImportsFile(results)
       THEN \E e \in CommitOutcomes :
               LET x == IF e = NoError THEN "none" ELSE CommitFailure(e)
               IN  /\ file_commits' =
                        Append(file_commits,
                               [indicator |-> FileIndicator(results, incident_id),
                                error |-> e, exc |-> x])
                   /\ IF x = "none" \/ Catches(x)
                      THEN /\ pc' = "done"
                           /\ UNCHANGED <<exc, raised_in>>
                      ELSE RaiseFromRun(x)
       ELSE /\ pc' = "done"
            /\ UNCHANGED <<exc, raised_in, file_commits>>
    /\ UNCHANGED <<results, incident, incident_commits, incident_id, uploads>>

Next ==
    \/ CreateIncident
    \/ IncidentCommit1
    \/ LoadAndLabel
    \/ IncidentCommit2
    \/ ImportNetworkUdp
    \/ ImportNetworkTcp
    \/ ImportNetworkHttp
    \/ ImportNetworkHosts
    \/ ImportNetworkDns
    \/ ImportNetworkDomains
    \/ ImportFile

Spec == Init /\ [][Next]_vars

(***************************************************************************)
(* Vocabulary of the properties.                                           *)
(***************************************************************************)
Range(seq) == {seq[i] : i \in DOMAIN seq}

\* the values upload_indicator was called with by one extractor step, in order
UploadedBy(step) ==
    LET calls == SelectSeq(uploads, LAMBDA u : u.by = step)
    IN  [i \in 1..Len(calls) |-> calls[i].indicator.value]

SectionOf == [s \in Range(NetworkSteps) |->
                 CASE s = "import_network_udp" -> "udp"
                   [] s = "import_network_tcp" -> "tcp"
                   [] s = "import_network_http" -> "http"
                   [] s = "import_network_hosts" -> "hosts"
                   [] s = "import_network_dns" -> "dns"
                   [] s = "import_network_domains" -> "domains"]

SectionAbsent(key) == ~results.network.present \/ results.network[key].kind = "absent"

SectionEmpty(key) ==
    /\ results.network.present
    /\ results.network[key].kind = "list"
    /\ results.network[key].items = <<>>

\* no section of network is a mapping
ListShaped == \A s \in Range(NetworkSteps) : results.network[SectionOf[s]].kind # "dict"

RunOver == pc \in {"done", "raised"}

\* every commit the platform has received succeeded
AllCommitsSucceeded ==
    /\ \A i \in DOMAIN incident_commits : incident_commits[i].error = NoError
    /\ \A i \in DOMAIN uploads : uploads[i].error = NoError
    /\ \A i \in DOMAIN file_commits : file_commits[i].error = NoError

Labelled(attributes) ==
    \A i \in DOMAIN attributes :
        Sensitive(attributes[i]) => "DO NOT SHARE" \in attributes[i].labels

(***************************************************************************)
(* C1: once create_incident has succeeded, run executes the seven steps in *)
(* the fixed order and returns normally, whatever indicator commits fail.  *)
(* The code does not: the except clause of upload_indicator passes the     *)
(* exception object to re.search, which raises a TypeError no caller       *)
(* catches.                                                                *)
(***************************************************************************)
C1_RunCompletes ==
    (incident_id # 0 /\ ListShaped) =>
        /\ pc # "raised"
        /\ steps = SubSeq(ExtractorSteps, 1, Len(steps))
        /\ pc = "done" => steps = ExtractorSteps

(***************************************************************************)
(* C2: an indicator commit that fails with a message containing            *)
(* "exclusion list" makes upload_indicator return normally.                *)
(***************************************************************************)
C2_ExclusionReturnsNormally ==
    \A i \in DOMAIN uploads :
        uploads[i].error = ExclusionFailure => uploads[i].exc = "none"

(***************************************************************************)
(* C3: if either incident commit fails, run raises CuckooReportError and   *)
(* no extractor step executes: no upload_indicator call, no indicator      *)
(* commit.                                                                 *)
(***************************************************************************)
C3_IncidentFailureAborts ==
    (\E i \in DOMAIN incident_commits : incident_commits[i].error # NoError) =>
        /\ pc = "raised"
        /\ exc = "CuckooReportError"
        /\ raised_in \in {"commit1", "commit2"}
        /\ incident_id = 0
        /\ steps = <<>>
        /\ uploads = <<>>
        /\ file_commits = <<>>

C3_Witness ==
    /\ pc = "raised"
    /\ Len(incident_commits) = 2
    /\ incident_commits[2].error = ExclusionFailure

(***************************************************************************)
(* C4: import_network('udp') then import_network('tcp') attempt the src    *)
(* and the dst of every connection once, 2*(N+M) attempts, whichever       *)
(* uploads fail.                                                           *)
(***************************************************************************)
ConnsOf(key) == IF SectionAbsent(key) THEN <<>> ELSE results.network[key].items

\* the j-th address of a list of connections: src, dst, src, dst, ...
Endpoint(conns, j) ==
    IF j % 2 = 1 THEN conns[(j + 1) \div 2].src ELSE conns[j \div 2].dst

EndpointsOf(key) == [j \in 1..(2 * Len(ConnsOf(key))) |-> Endpoint(ConnsOf(key), j)]

\* both calls of import_network are over
ConnectionsOver ==
    \/ \E i \in DOMAIN steps : steps[i] = "import_network_tcp"
    \/ pc = "raised" /\ raised_in = "import_network_udp"

C4_TwoAttemptsPerConnection ==
    (ConnectionsOver /\ ListShaped) =>
        /\ UploadedBy("import_network_udp") = EndpointsOf("udp")
        /\ UploadedBy("import_network_tcp") = EndpointsOf("tcp")
        /\ Len(UploadedBy("import_network_udp")) + Len(UploadedBy("import_network_tcp"))
              = 2 * (Len(ConnsOf("tcp")) + Len(ConnsOf("udp")))

(***************************************************************************)
(* C5: an absent network, or an absent section of it, makes no extractor   *)
(* raise and causes no upload_indicator call: the extractor of an absent   *)
(* section does what it does for an empty one.  (import_file never calls   *)
(* upload_indicator; without a network it can only raise on a failed       *)
(* commit of its own.)                                                     *)
(***************************************************************************)
C5_AbsentSectionTolerated ==
    /\ \A s \in Range(NetworkSteps) :
          (SectionAbsent(SectionOf[s]) \/ SectionEmpty(SectionOf[s])) =>
              /\ UploadedBy(s) = <<>>
              /\ raised_in # s
    /\ ~results.network.present =>
          /\ uploads = <<>>
          /\ pc = "raised" =>
                \/ raised_in \in IncidentSteps
                \/ /\ raised_in = "import_file"
                   /\ file_commits # <<>>
                   /\ file_commits[Len(file_commits)].error # NoError
          /\ pc = "done" => steps = ExtractorSteps

C5_Witness ==
    /\ ~results.network.present
    /\ pc = "done"
    /\ steps = ExtractorSteps
    /\ Len(file_commits) = 1

(***************************************************************************)
(* C6 as stated: for every entry of network.http the port-stripped host is *)
(* uploaded whether or not it is an IP address, and the URI as well, so a  *)
(* hostname with a non-empty uri gives two upload attempts.                *)
(***************************************************************************)
HttpCompleted ==
    /\ \E i \in DOMAIN steps : steps[i] = "import_network_http"
    /\ raised_in # "import_network_http"
    /\ results.network.http.kind = "list"

HttpItems == results.network.http.items

HttpHosts == {re_sub_port(HttpItems[i].host) : i \in DOMAIN HttpItems}

HttpUris == {HttpItems[i].uri : i \in DOMAIN HttpItems} \ {<<>>}

RestOfNetworkAbsent ==
    /\ results.network.present
    /\ \A k \in {"tcp", "udp", "http", "hosts", "domains"} : results.network[k].kind = "absent"

IsEndToEndLiteral ==
    /\ results.target = FileTarget
    /\ results.info = StartedInfo
    /\ RestOfNetworkAbsent
    /\ results.network.dns.kind = "dict"
    /\ results.network.dns = DnsMappingNetwork.dns

IsEndToEndList ==
    /\ results.target = FileTarget
    /\ results.info = StartedInfo
    /\ RestOfNetworkAbsent
    /\ results.network.dns.kind = "list"
    /\ results.network.dns = DnsListNetwork.dns

EndToEndOutcome ==
    /\ pc = "done"
    /\ Len(incident_commits) = 2
    /\ incident_commits[1].incident.title = incident_commits[2].incident.title
    /\ \E i \in DOMAIN incident.attributes :
          incident.attributes[i].type = "Analysis ID" /\ incident.attributes[i].value = 42
    /\ \E i \in DOMAIN incident.attributes :
          /\ incident.attributes[i].type = "Source"
          /\ incident.attributes[i].value = <<"r", "/", "4", "2">>
    /\ [i \in DOMAIN uploads |-> uploads[i].indicator.value] = <<ExampleCom, Addr1234>>
    /\ Len(file_commits) = 1
    /\ file_commits[1].indicator.value = <<"m">>
    /\ file_commits[1].indicator.hashes = << <<"s", "1">>, <<"s", "2">> >>
    /\ file_commits[1].indicator.size = 100
    /\ file_commits[1].indicator.occurrences =
          <<[name |-> <<"a", ".", "e", "x", "e">>, fo_date |-> <<"2", "0", "2", "3", "-", "0", "1", "-", "0", "1">>]>>

C7_EndToEndAsWritten ==
    (IsEndToEndLiteral /\ AllCommitsSucceeded /\ RunOver) => EndToEndOutcome

(***************************************************************************)
(* C7 amended: the same scenario with dns a list of queries,               *)
(* network: {dns: [{request: "example.com", answers: ["1.2.3.4"]}]}, ends  *)
(* with exactly that incident and those three indicators.                  *)
(***************************************************************************)
C7_EndToEndList ==
    (IsEndToEndList /\ AllCommitsSucceeded /\ RunOver) => EndToEndOutcome

C7_Witness == IsEndToEndList /\ AllCommitsSucceeded /\ pc = "done"

(***************************************************************************)
(* C8: every indicator whose commit was attempted, by upload_indicator or  *)
(* by import_file, carried at that commit the association with the         *)
(* incident id create_incident returned to this run; once set, the         *)
(* incident id never changes.                                              *)
(***************************************************************************)
AssociatedWithIncident ==
    /\ \A i \in DOMAIN uploads :
          /\ incident_id \in 1..MaxIncidentId
          /\ uploads[i].indicator.group = incident_id
    /\ \A i \in DOMAIN file_commits :
          /\ incident_id \in 1..MaxIncidentId
          /\ file_commits[i].indicator.group = incident_id
    /\ incident_id # 0 => incident_id = incident.id

C8_IndicatorsAssociated ==
    /\ []AssociatedWithIncident
    /\ [][incident_id # 0 => incident_id' = incident_id]_vars

C8_Witness == pc = "done" /\ Len(uploads) >= 2 /\ Len(file_commits) = 1

(***************************************************************************)
(* C9: create_incident commits the incident at most twice: the first       *)
(* commit, then only after its success the reload, the labelling and the   *)
(* second commit; when the second commit is attempted every Analysis ID    *)
(* and Source attribute carries DO NOT SHARE; the id is returned only      *)
(* after the second commit succeeded.                                      *)
(***************************************************************************)
C9_LabelledBeforeSecondCommit ==
    /\ Len(incident_commits) <= 2
    /\ Len(incident_commits) >= 1 => ~incident_commits[1].incident.loaded
    /\ Len(incident_commits) = 2 =>
          /\ incident_commits[1].error = NoError
          /\ incident_commits[2].incident.loaded
          /\ Labelled(incident_commits[2].incident.attributes)
    /\ pc = "commit2" =>
          /\ Len(incident_commits) = 1
          /\ incident.loaded
          /\ Labelled(incident.attributes)
    /\ pc = "label" => Len(incident_commits) = 1 /\ incident_commits[1].error = NoError
    /\ incident_id # 0 =>
          /\ Len(incident_commits) = 2
          /\ incident_commits[2].error = NoError
          /\ incident_id = incident.id

C9_Witness ==
    /\ incident_id # 0
    /\ Len(incident_commits) = 2
    /\ Len(incident_commits[2].incident.attributes) = 3
    /\ Labelled(incident_commits[2].incident.attributes)

(***************************************************************************)
(* C10: a file indicator commit that fails for another reason than         *)
(* exclusion makes import_file raise CuckooReportError, which run catches, *)
(* so run returns normally; a failure whose message contains "exclusion    *)
(* list" makes import_file return normally.                                *)
(***************************************************************************)
C10_FileFailureContained ==
    \A i \in DOMAIN file_commits :
        /\ file_commits[i].error = OtherFailure =>
              file_commits[i].exc = "CuckooReportError" /\ pc = "done"
        /\ file_commits[i].error = ExclusionFailure =>
              file_commits[i].exc = "none" /\ pc = "done"

=============================================================================
